---- MODULE Spec2Model ----
(***************************************************************************)
(* Model of the VM lifecycle tools of ProxmoxMCP                           *)
(* (src/src/proxmox_mcp/tools/vm.py, class VMTools).                       *)
(*                                                                         *)
(* Text is modelled as a sequence of words: an f-string is the             *)
(* concatenation of its literal words and of the words of the values it    *)
(* interpolates, `x in s` is "x is a contiguous run of words of s" and     *)
(* str.lower() lower-cases word by word.                                   *)
(*                                                                         *)
(* Every call of the ProxmoxAPI client is one step of a handler: the       *)
(* hypervisor is shared with other clients, so its state may change        *)
(* between the status read and the action of one invocation.               *)
(***************************************************************************)
EXTENDS Integers, Sequences, FiniteSets, TLC

VARIABLES vmState, calls, cluster, inv, script

vars == <<vmState, calls, cluster, inv, script>>

(***************************************************************************)
(* Input domains                                                           *)
(***************************************************************************)
Callers == {"c1", "c2"}

\* callers that issue requests one after the other in Spec
SeqCallers == {"c1"}

Nodes == {"node1"}

\* vmid is an unvalidated str (vm.py:168): a numeric id and a free-form one
VMIDs == {<<"100">>, <<"Not", "Found">>}

VMs == Nodes \X VMIDs

Names == {<<"test-vm">>}

\* values a caller passes for memory / cores; <<>> stands for "argument omitted"
MemoryArgs == {<<>>, <<2048>>}

CoresArgs == {<<>>, <<2>>}

\* values of vm_status["status"]
Statuses == {"running", "stopped", "paused", "unknown"}

Absent == "absent"

Ops == {"start", "stop", "shutdown", "restart", "create", "delete"}

(***************************************************************************)
(* Text helpers                                                            *)
(***************************************************************************)
\* str.lower(), word by word
LowerWord(w) ==
    CASE w = "VM" -> "vm"
      [] w = "Not" -> "not"
      [] w = "Found" -> "found"
      [] w = "Permission" -> "permission"
      [] w = "Invalid" -> "invalid"
      [] w = "VMID" -> "vmid"
      [] w = "Connection" -> "connection"
      [] w = "Failed" -> "failed"
      [] OTHER -> w

Lower(s) == [i \in 1..Len(s) |-> LowerWord(s[i])]

\* Python's  sub in s
Contains(s, sub) ==
    \E i \in 1..(Len(s) - Len(sub) + 1) : SubSeq(s, i, i + Len(sub) - 1) = sub

(***************************************************************************)
(* The remote control plane (ProxmoxAPI client)                            *)
(***************************************************************************)
RemoteExcTypes == {"ResourceException", "Exception"}

RemoteMsgs == {<<"VM", "not", "found">>,
               <<"Resource", "Not", "Found">>,
               <<"Permission", "denied">>,
               <<"Invalid", "VMID">>,
               <<"Connection", "timeout">>}

RemoteExcs == [type : RemoteExcTypes, msg : RemoteMsgs]

NoExc == [type |-> "", msg |-> <<>>]

\* what a remote action may return: a task id, an empty string, None, a non-string
StrVal(s) == [t |-> "str", v |-> s]

NoneVal == [t |-> "none", v |-> ""]

DictVal == [t |-> "dict", v |-> ""]

RetVals == {StrVal("UPID:node1:qm"), StrVal(""), NoneVal, DictVal}

\* isinstance(result, str)
IsStr(r) == r.t = "str"

\* status.current.get(): the status of an existing VM, or an exception
StatusRead(vm) ==
    [raised : {TRUE}, status : {""}, exc : RemoteExcs]
    \cup (IF vmState[vm] # Absent
          THEN {[raised |-> FALSE, status |-> vmState[vm], exc |-> NoExc]}
          ELSE {})

\* a remote action: returns a value or raises; an action on a missing VM raises
RemoteAction(vm, api) ==
    [raised : {TRUE}, ret : {NoneVal}, exc : RemoteExcs]
    \cup (IF api = "qemu.post" \/ vmState[vm] # Absent
          THEN [raised : {FALSE}, ret : RetVals, exc : {NoExc}]
          ELSE {})

\* the status an accepted action leaves the VM in
RemoteEffect(api) ==
    CASE api = "status.start.post" -> "running"
      [] api = "status.stop.post" -> "stopped"
      [] api = "status.shutdown.post" -> "stopped"
      [] api = "status.reboot.post" -> "running"
      [] api = "qemu.post" -> "stopped"
      [] api = "delete" -> Absent

(***************************************************************************)
(* The inventory endpoints of the remote plane, read by get_vms            *)
(***************************************************************************)
ListNodes == {"node1", "node2"}

\* nodes.get(): the nodes in the order the cluster reports them
NodeLists == {<<>>, <<"node1">>, <<"node2">>, <<"node1", "node2">>, <<"node2", "node1">>}

MaxVMsPerNode == 2

\* an entry of nodes(node).qemu.get(); mem / maxmem are <<>> when the key is missing
CoarseVMs ==
    {[vmid |-> "100", name |-> "vm1", status |-> "running",
      mem |-> <<134217728>>, maxmem |-> <<536870912>>],
     [vmid |-> "101", name |-> "vm2", status |-> "stopped",
      mem |-> <<0>>, maxmem |-> <<536870912>>],
     [vmid |-> "102", name |-> "vm3", status |-> "paused",
      mem |-> <<>>, maxmem |-> <<>>]}

VMLists == UNION {[1..n -> CoarseVMs] : n \in 0..MaxVMsPerNode}

\* what the hypervisor holds: its nodes and the VM list of each node
Clusters == [nodes : NodeLists, vms : [ListNodes -> VMLists]]

NoInventory == [nodes |-> <<>>, vms |-> [n \in ListNodes |-> <<>>]]

IntVal(n) == [t |-> "int", v |-> n]

\* qemu(vmid).config.get(): VM 100 has a core count, the configuration of VM 101
\* cannot be fetched, the configuration of VM 102 has no "cores" entry
ConfigRead(vmid) ==
    CASE vmid = "100" -> {[raised |-> FALSE, config |-> [cores |-> <<IntVal("2")>>], exc |-> NoExc]}
      [] vmid = "101" -> [raised : {TRUE}, config : {[cores |-> <<>>]}, exc : RemoteExcs]
      [] vmid = "102" -> {[raised |-> FALSE, config |-> [cores |-> <<>>], exc |-> NoExc]}

\* nodes.get(): the node list, or an exception
NodesRead ==
    {[raised |-> FALSE, list |-> cluster.nodes, exc |-> NoExc]}
    \cup [raised : {TRUE}, list : {<<>>}, exc : RemoteExcs]

\* nodes(node_name).qemu.get(): the VM list of the node, or an exception
QemuRead(node_name) ==
    {[raised |-> FALSE, list |-> cluster.vms[node_name], exc |-> NoExc]}
    \cup [raised : {TRUE}, list : {<<>>}, exc : RemoteExcs]

(***************************************************************************)
(* Errors and results                                                      *)
(***************************************************************************)
ValueError(msg) == [type |-> "ValueError", msg |-> msg]

NoOut == [kind |-> "none", success |-> FALSE, message |-> <<>>,
          upid |-> NoneVal, vmid |-> <<>>]

\* ProxmoxTool._handle_error(operation, error): a ValueError is a precondition
\* violation and is raised as it is; everything else becomes a RuntimeError
\* "Failed to {operation}: {error}"
HandleError(operation, e) ==
    IF e.type = "ValueError"
    THEN [NoOut EXCEPT !.kind = "ValueError", !.message = e.msg]
    ELSE [NoOut EXCEPT !.kind = "RuntimeError",
                       !.message = <<"Failed", "to">> \o operation \o <<":">> \o e.msg]

(***************************************************************************)
(* One invocation of a tool                                                *)
(***************************************************************************)
IdleCall == [pc |-> "idle", op |-> "", node |-> "", vmid |-> <<>>, name |-> <<>>,
             memArg |-> <<>>, coresArg |-> <<>>, memory |-> 0, cores |-> 0,
             seen |-> "", current |-> "", log |-> <<>>, created |-> <<>>,
             guard |-> "none", raisedBy |-> "none", remoteMsg |-> <<>>,
             ret |-> NoneVal, out |-> NoOut]

\* a call of the ProxmoxAPI client made by the invocation
Issue(call, api) ==
    [call EXCEPT !.log = Append(@, [api |-> api, node |-> call.node, vmid |-> call.vmid])]

\* a state-changing call; current notes the status the VM has when it is made
IssueAction(call, api) ==
    [Issue(call, api) EXCEPT !.current = vmState[<<call.node, call.vmid>>]]

\* the invocation ends in  except Exception as e: self._handle_error(operation, e)
Fail(call, operation, e) ==
    [call EXCEPT !.pc = "done", !.out = HandleError(operation, e)]

\* faulty variant: "upid": result or None
TaskHandle_truthy(result) ==
    IF result \in {NoneVal, StrVal("")} THEN NoneVal ELSE result

\* "upid": result if isinstance(result, str) else None
TaskHandle(result) == IF IsStr(result) THEN result ELSE NoneVal

\* faulty variant: "success" tells whether the remote action gave a task id
Succeed_success_if_task(call, message, result) ==
    [call EXCEPT !.pc = "done", !.ret = result,
                 !.out = [NoOut EXCEPT !.kind = "ok", !.success = IsStr(result),
                                       !.message = message,
                                       !.upid = TaskHandle(result)]]

\* the response of start / stop / shutdown / restart / delete
Succeed(call, message, result) ==
    [call EXCEPT !.pc = "done", !.ret = result,
                 !.out = [NoOut EXCEPT !.kind = "ok", !.success = TRUE,
                                       !.message = message,
                                       !.upid = TaskHandle(result)]]

\* the invocation of get_vms: its loop position, its local result and its outcome
IdleList == [pc |-> "idle", nodes |-> <<>>, ni |-> 0, vms |-> <<>>, vi |-> 1,
             result |-> <<>>, raisedBy |-> "none", remoteMsg |-> <<>>,
             out |-> [kind |-> "none", message |-> <<>>, records |-> <<>>]]

\* a client that runs a fixed sequence of operations on one VM: the operations,
\* the VM, the position, and for every finished operation how it ended and
\* whether the remote plane raised in it
NoScript == [ops |-> <<>>, node |-> "", vmid |-> <<>>, pos |-> 1,
             kinds |-> <<>>, faults |-> <<>>]

Init ==
    /\ vmState \in [VMs -> Statuses \cup {Absent}]
    /\ calls = [c \in Callers |-> IdleCall]
    /\ cluster = NoInventory
    /\ inv = IdleList
    /\ script = NoScript

(***************************************************************************)
(* server.py: the tool wrappers hand the arguments to VMTools              *)
(***************************************************************************)
Invoke(c, op, node, vmid) ==
    /\ calls[c].pc = "idle"
    /\ op \in Ops \ {"create"}
    /\ calls' = [calls EXCEPT ![c] =
                    [IdleCall EXCEPT !.pc = "read", !.op = op, !.node = node, !.vmid = vmid]]
    /\ UNCHANGED <<vmState, cluster, inv, script>>

create_vm_default_memory == 512

create_vm_default_cores == 1

InvokeCreate(c, node, vmid, name, memArg, coresArg) ==
    /\ calls[c].pc = "idle"
    /\ calls' = [calls EXCEPT ![c] =
                    [IdleCall EXCEPT !.pc = "read", !.op = "create", !.node = node,
                                     !.vmid = vmid, !.name = name,
                                     !.memArg = memArg, !.coresArg = coresArg,
                                     !.memory = IF memArg = <<>> THEN create_vm_default_memory
                                                ELSE memArg[1],
                                     !.cores = IF coresArg = <<>> THEN create_vm_default_cores
                                               ELSE coresArg[1]]]
    /\ UNCHANGED <<vmState, cluster, inv, script>>

\* faulty variant: the outcome of a failed invocation stays with the tools object
Returned_keeps_failure(call) ==
    IF call.out.kind = "ok" THEN IdleCall ELSE [IdleCall EXCEPT !.out = call.out]

\* what is left of an invocation once it has returned or raised: nothing, VMTools
\* has no attribute that a handler writes
Returned(call) == IdleCall

\* the caller takes the result
Return(c) ==
    /\ calls[c].pc = "done"
    /\ calls' = [calls EXCEPT ![c] = Returned(calls[c])]
    /\ UNCHANGED <<vmState, cluster, inv, script>>

(***************************************************************************)
(* start_vm, stop_vm, shutdown_vm, restart_vm: the tests and the texts     *)
(* that differ between the four handlers                                   *)
(***************************************************************************)
\* faulty variant: the test is made against the wrong status
start_vm_illegal_inverted(status) == status = "stopped"

start_vm_illegal(status) == status = "running"

start_vm_reason(vmid) == <<"VM">> \o vmid \o <<"is", "already", "running">>

start_vm_operation(vmid) == <<"start", "VM">> \o vmid

start_vm_message(vmid) == <<"VM">> \o vmid \o <<"started", "successfully">>

\* faulty variant: an allowlist, only a running VM may be stopped
stop_vm_illegal_allowlist(status) == status # "running"

stop_vm_illegal(status) == status = "stopped"

stop_vm_reason(vmid) == <<"VM">> \o vmid \o <<"is", "already", "stopped">>

stop_vm_operation(vmid) == <<"stop", "VM">> \o vmid

stop_vm_message(vmid) == <<"VM">> \o vmid \o <<"stopped", "successfully">>

\* faulty variant: the test is made against the wrong status
shutdown_vm_illegal_inverted(status) == status = "running"

shutdown_vm_illegal(status) == status = "stopped"

shutdown_vm_reason(vmid) == <<"VM">> \o vmid \o <<"is", "already", "stopped">>

shutdown_vm_operation(vmid) == <<"shutdown", "VM">> \o vmid

shutdown_vm_message(vmid) == <<"VM">> \o vmid \o <<"shutdown", "initiated">>

\* faulty variant: only a stopped VM is turned away
restart_vm_illegal_stopped_only(status) == status = "stopped"

restart_vm_illegal(status) == status # "running"

restart_vm_reason(vmid, status) ==
    <<"VM">> \o vmid \o <<"is", "not", "running", "(current", "status:", status, ")">>

restart_vm_operation(vmid) == <<"reboot", "VM">> \o vmid

restart_vm_message(vmid) == <<"VM">> \o vmid \o <<"reboot", "initiated">>

\* if vm_status["status"] ...:
Illegal(op, status) ==
    CASE op = "start" -> start_vm_illegal(status)
      [] op = "stop" -> stop_vm_illegal(status)
      [] op = "shutdown" -> shutdown_vm_illegal(status)
      [] op = "restart" -> restart_vm_illegal(status)

\* raise ValueError(f"...")
Reason(op, vmid, status) ==
    CASE op = "start" -> start_vm_reason(vmid)
      [] op = "stop" -> stop_vm_reason(vmid)
      [] op = "shutdown" -> shutdown_vm_reason(vmid)
      [] op = "restart" -> restart_vm_reason(vmid, status)

\* the first argument of self._handle_error
Operation(op, vmid) ==
    CASE op = "start" -> start_vm_operation(vmid)
      [] op = "stop" -> stop_vm_operation(vmid)
      [] op = "shutdown" -> shutdown_vm_operation(vmid)
      [] op = "restart" -> restart_vm_operation(vmid)

\* "message" of the response
Message(op, vmid) ==
    CASE op = "start" -> start_vm_message(vmid)
      [] op = "stop" -> stop_vm_message(vmid)
      [] op = "shutdown" -> shutdown_vm_message(vmid)
      [] op = "restart" -> restart_vm_message(vmid)

\* faulty variant: shutdown_vm posts to the endpoint of stop_vm
Api_shutdown_forces(op) ==
    CASE op = "start" -> "status.start.post"
      [] op = "stop" -> "status.stop.post"
      [] op = "shutdown" -> "status.stop.post"
      [] op = "restart" -> "status.reboot.post"

\* the remote action of the handler
Api(op) ==
    CASE op = "start" -> "status.start.post"
      [] op = "stop" -> "status.stop.post"
      [] op = "shutdown" -> "status.shutdown.post"
      [] op = "restart" -> "status.reboot.post"

\* faulty variant: the status is fetched a second time before it is tested
Checked_read_twice(call, r) ==
    LET again == Issue(call, "status.current.get")
    IN IF r.raised
       THEN Fail([again EXCEPT !.raisedBy = "read", !.remoteMsg = r.exc.msg],
                 Operation(call.op, call.vmid), r.exc)
       ELSE IF Illegal(call.op, r.status)
       THEN Fail([again EXCEPT !.seen = r.status, !.guard = "denied"],
                 Operation(call.op, call.vmid),
                 ValueError(Reason(call.op, call.vmid, r.status)))
       ELSE [again EXCEPT !.pc = "act", !.seen = r.status, !.guard = "allowed"]

\* faulty variant: a failed status read is taken for "nothing to object to"
Checked_ignore_read_error(call, r) ==
    IF r.raised
    THEN [call EXCEPT !.pc = "act", !.raisedBy = "read", !.remoteMsg = r.exc.msg]
    ELSE IF Illegal(call.op, r.status)
    THEN Fail([call EXCEPT !.seen = r.status, !.guard = "denied"],
              Operation(call.op, call.vmid),
              ValueError(Reason(call.op, call.vmid, r.status)))
    ELSE [call EXCEPT !.pc = "act", !.seen = r.status, !.guard = "allowed"]

\* what the handler does with the outcome r of its status read
Checked(call, r) ==
    IF r.raised
    THEN Fail([call EXCEPT !.raisedBy = "read", !.remoteMsg = r.exc.msg],
              Operation(call.op, call.vmid), r.exc)
    ELSE IF Illegal(call.op, r.status)
    THEN Fail([call EXCEPT !.seen = r.status, !.guard = "denied"],
              Operation(call.op, call.vmid),
              ValueError(Reason(call.op, call.vmid, r.status)))
    ELSE [call EXCEPT !.pc = "act", !.seen = r.status, !.guard = "allowed"]

\* faulty variant: the status read waits while another invocation that has read the
\* status of the same VM has its action still to issue
CheckStatus_locked(c, op) ==
    /\ calls[c].pc = "read"
    /\ calls[c].op = op
    /\ \A d \in Callers \ {c} :
         ~ (calls[d].pc = "act" /\ calls[d].node = calls[c].node
              /\ calls[d].vmid = calls[c].vmid)
    /\ LET call == Issue(calls[c], "status.current.get")
       IN \E r \in StatusRead(<<call.node, call.vmid>>) :
            calls' = [calls EXCEPT ![c] = Checked(call, r)]
    /\ UNCHANGED <<vmState, cluster, inv, script>>

\* vm_status = self.proxmox.nodes(node).qemu(vmid).status.current.get()
CheckStatus(c, op) ==
    /\ calls[c].pc = "read"
    /\ calls[c].op = op
    /\ LET call == Issue(calls[c], "status.current.get")
       IN \E r \in StatusRead(<<call.node, call.vmid>>) :
            calls' = [calls EXCEPT ![c] = Checked(call, r)]
    /\ UNCHANGED <<vmState, cluster, inv, script>>

\* faulty variant: the exception of the remote action is reported without its text
Dispatched_drop_cause(call, message, operation, r) ==
    IF r.raised
    THEN Fail([call EXCEPT !.raisedBy = "action", !.remoteMsg = r.exc.msg],
              operation, [r.exc EXCEPT !.msg = <<"Operation", "failed">>])
    ELSE Succeed(call, message, r.ret)

\* faulty variant: an action that raised is issued again
Dispatched_retry(call, message, operation, r) ==
    IF r.raised
    THEN [call EXCEPT !.raisedBy = "action", !.remoteMsg = r.exc.msg]
    ELSE Succeed(call, message, r.ret)

\* what a handler does with the outcome r of its remote action
Dispatched(call, message, operation, r) ==
    IF r.raised
    THEN Fail([call EXCEPT !.raisedBy = "action", !.remoteMsg = r.exc.msg],
              operation, r.exc)
    ELSE Succeed(call, message, r.ret)

\* result = self.proxmox.nodes(node).qemu(vmid).status.<action>.post()
Dispatch(c, op) ==
    /\ calls[c].pc = "act"
    /\ calls[c].op = op
    /\ LET call == IssueAction(calls[c], Api(op))
           vm == <<call.node, call.vmid>>
       IN \E r \in RemoteAction(vm, Api(op)) :
            /\ calls' = [calls EXCEPT ![c] =
                  Dispatched(call, Message(op, call.vmid), Operation(op, call.vmid), r)]
            /\ vmState' = IF r.raised THEN vmState
                          ELSE [vmState EXCEPT ![vm] = RemoteEffect(Api(op))]
            /\ UNCHANGED <<cluster, inv, script>>

start_vm_check(c) == CheckStatus(c, "start")

start_vm_post(c) == Dispatch(c, "start")

stop_vm_check(c) == CheckStatus(c, "stop")

stop_vm_post(c) == Dispatch(c, "stop")

shutdown_vm_check(c) == CheckStatus(c, "shutdown")

shutdown_vm_post(c) == Dispatch(c, "shutdown")

restart_vm_check(c) == CheckStatus(c, "restart")

restart_vm_post(c) == Dispatch(c, "restart")

(***************************************************************************)
(* create_vm                                                               *)
(***************************************************************************)
create_vm_reason(vmid) == <<"VM">> \o vmid \o <<"already", "exists">>

create_vm_operation(vmid) == <<"create", "VM">> \o vmid

create_vm_message(vmid, name) ==
    <<"VM">> \o vmid \o <<"(">> \o name \o <<")", "created", "successfully">>

\* the exception that leaves the inner try block: the one of the status read,
\* or the ValueError raised after a status read that returned
create_vm_raised(call, r) ==
    IF r.raised THEN r.exc ELSE ValueError(create_vm_reason(call.vmid))

\* faulty variant: only a read that reports "not found" counts as "no such VM"
create_vm_checked_surface(call, r) ==
    IF r.raised /\ ~ Contains(Lower(r.exc.msg), <<"not", "found">>)
    THEN Fail([call EXCEPT !.raisedBy = "read", !.remoteMsg = r.exc.msg],
              create_vm_operation(call.vmid), r.exc)
    ELSE [call EXCEPT !.pc = "act",
                      !.seen = r.status,
                      !.guard = IF create_vm_raised(call, r).type = "ValueError"
                                THEN "denied" ELSE "allowed",
                      !.raisedBy = IF r.raised THEN "read" ELSE "none",
                      !.remoteMsg = r.exc.msg]

\* except Exception: pass  -- whatever was raised, the handler goes on to create
create_vm_checked(call, r) ==
    [call EXCEPT !.pc = "act",
                 !.seen = r.status,
                 !.guard = IF create_vm_raised(call, r).type = "ValueError"
                           THEN "denied" ELSE "allowed",
                 !.raisedBy = IF r.raised THEN "read" ELSE "none",
                 !.remoteMsg = r.exc.msg]

create_vm_check(c) ==
    /\ calls[c].pc = "read"
    /\ calls[c].op = "create"
    /\ LET call == Issue(calls[c], "status.current.get")
       IN \E r \in StatusRead(<<call.node, call.vmid>>) :
            calls' = [calls EXCEPT ![c] = create_vm_checked(call, r)]
    /\ UNCHANGED <<vmState, cluster, inv, script>>

\* faulty variant: the memory of the request is not handed on
create_vm_spec_fixed_memory(call) ==
    [vmid |-> call.vmid, name |-> call.name, ostype |-> "l26",
     memory |-> create_vm_default_memory, cores |-> call.cores, sockets |-> 1,
     scsi0 |-> "local-zfs:1", boot |-> "order=scsi0", net0 |-> "virtio,bridge=vmbr0"]

\* the keyword arguments of nodes(node).qemu.post(...)
create_vm_spec(call) ==
    [vmid |-> call.vmid, name |-> call.name, ostype |-> "l26",
     memory |-> call.memory, cores |-> call.cores, sockets |-> 1,
     scsi0 |-> "local-zfs:1", boot |-> "order=scsi0", net0 |-> "virtio,bridge=vmbr0"]

\* the response of create_vm, or the exception of the create goes to _handle_error
create_vm_dispatched(call, r) ==
    IF r.raised
    THEN Fail([call EXCEPT !.raisedBy = "action", !.remoteMsg = r.exc.msg],
              create_vm_operation(call.vmid), r.exc)
    ELSE [call EXCEPT !.pc = "done", !.ret = r.ret,
                      !.out = [NoOut EXCEPT
                                  !.kind = "ok", !.success = TRUE,
                                  !.message = create_vm_message(call.vmid, call.name),
                                  !.vmid = call.vmid]]

create_vm_post(c) ==
    /\ calls[c].pc = "act"
    /\ calls[c].op = "create"
    /\ LET call == [IssueAction(calls[c], "qemu.post") EXCEPT
                        !.created = Append(@, create_vm_spec(calls[c]))]
           vm == <<call.node, call.vmid>>
       IN \E r \in RemoteAction(vm, "qemu.post") :
            /\ calls' = [calls EXCEPT ![c] = create_vm_dispatched(call, r)]
            /\ vmState' = IF r.raised THEN vmState
                          ELSE [vmState EXCEPT ![vm] = RemoteEffect("qemu.post")]
            /\ UNCHANGED <<cluster, inv, script>>

(***************************************************************************)
(* delete_vm                                                               *)
(***************************************************************************)
\* faulty variant: the test for a stopped VM is the wrong way round
delete_vm_illegal_inverted(status) == status \notin {"running", "paused"}

delete_vm_illegal(status) == status \in {"running", "paused"}

delete_vm_reason(vmid) ==
    <<"VM">> \o vmid \o <<"must", "be", "stopped", "before", "deletion">>

delete_vm_not_found(vmid) == <<"VM">> \o vmid \o <<"not", "found">>

delete_vm_operation(vmid) == <<"delete", "VM">> \o vmid

delete_vm_message(vmid) == <<"VM">> \o vmid \o <<"deleted", "successfully">>

\* faulty variant: every failure of the status read is reported as "not found"
delete_vm_reraise_always_not_found(vmid, e) == ValueError(delete_vm_not_found(vmid))

\* faulty variant: the text of the exception is searched as it is written
delete_vm_reraise_case_sensitive(vmid, e) ==
    IF ~ Contains(e.msg, <<"not", "found">>)
    THEN e
    ELSE ValueError(delete_vm_not_found(vmid))

\* except Exception as e:
\*     if "not found" not in str(e).lower(): raise
\*     raise ValueError(f"VM {vmid} not found") from None
delete_vm_reraise(vmid, e) ==
    IF ~ Contains(Lower(e.msg), <<"not", "found">>)
    THEN e
    ELSE ValueError(delete_vm_not_found(vmid))

\* the inner try block and its handler, on the outcome r of the status read
delete_vm_checked(call, r) ==
    IF r.raised
    THEN Fail([call EXCEPT !.raisedBy = "read", !.remoteMsg = r.exc.msg],
              delete_vm_operation(call.vmid),
              delete_vm_reraise(call.vmid, r.exc))
    ELSE IF delete_vm_illegal(r.status)
    THEN Fail([call EXCEPT !.seen = r.status, !.guard = "denied"],
              delete_vm_operation(call.vmid),
              delete_vm_reraise(call.vmid, ValueError(delete_vm_reason(call.vmid))))
    ELSE [call EXCEPT !.pc = "act", !.seen = r.status, !.guard = "allowed"]

delete_vm_check(c) ==
    /\ calls[c].pc = "read"
    /\ calls[c].op = "delete"
    /\ LET call == Issue(calls[c], "status.current.get")
       IN \E r \in StatusRead(<<call.node, call.vmid>>) :
            calls' = [calls EXCEPT ![c] = delete_vm_checked(call, r)]
    /\ UNCHANGED <<vmState, cluster, inv, script>>

\* result = self.proxmox.nodes(node).qemu(vmid).delete()
delete_vm_delete(c) ==
    /\ calls[c].pc = "act"
    /\ calls[c].op = "delete"
    /\ LET call == IssueAction(calls[c], "delete")
           vm == <<call.node, call.vmid>>
       IN \E r \in RemoteAction(vm, "delete") :
            /\ calls' = [calls EXCEPT ![c] =
                  Dispatched(call, delete_vm_message(call.vmid),
                             delete_vm_operation(call.vmid), r)]
            /\ vmState' = IF r.raised THEN vmState
                          ELSE [vmState EXCEPT ![vm] = RemoteEffect("delete")]
            /\ UNCHANGED <<cluster, inv, script>>

(***************************************************************************)
(* Other clients of the hypervisor change a VM behind the server's back    *)
(***************************************************************************)
RemoteChange(vm, s) ==
    /\ vmState[vm] # s
    /\ vmState' = [vmState EXCEPT ![vm] = s]
    /\ UNCHANGED <<calls, cluster, inv, script>>

Step(c) ==
    \/ \E op \in Ops, n \in Nodes, v \in VMIDs : Invoke(c, op, n, v)
    \/ \E n \in Nodes, v \in VMIDs, nm \in Names, m \in MemoryArgs, k \in CoresArgs :
          InvokeCreate(c, n, v, nm, m, k)
    \/ start_vm_check(c)
    \/ start_vm_post(c)
    \/ stop_vm_check(c)
    \/ stop_vm_post(c)
    \/ shutdown_vm_check(c)
    \/ shutdown_vm_post(c)
    \/ restart_vm_check(c)
    \/ restart_vm_post(c)
    \/ create_vm_check(c)
    \/ create_vm_post(c)
    \/ delete_vm_check(c)
    \/ delete_vm_delete(c)
    \/ Return(c)

Next ==
    \/ \E c \in SeqCallers : Step(c)
    \/ \E vm \in VMs, s \in Statuses \cup {Absent} : RemoteChange(vm, s)

Spec == Init /\ [][Next]_vars

(***************************************************************************)
(* Concurrent start requests.  A server process serves one client over     *)
(* stdio (server.py, start), so two clients are two processes, each with   *)
(* its own VMTools, against the one hypervisor; VMTools itself holds no    *)
(* lock.  The remote calls of the two invocations interleave freely.       *)
(***************************************************************************)
ConcStep(c) ==
    \/ \E n \in Nodes, v \in VMIDs : Invoke(c, "start", n, v)
    \/ start_vm_check(c)
    \/ start_vm_post(c)
    \/ Return(c)

NextConc == \E c \in Callers : ConcStep(c)

SpecConc == Init /\ [][NextConc]_vars

(***************************************************************************)
(* A client running a sequence of operations on one VM, against a remote   *)
(* plane whose VMs change only by the actions it accepts                   *)
(***************************************************************************)
LifecycleScript == <<"create", "start", "stop", "delete">>

CleanupScript == <<"start", "delete">>

Scripts == {LifecycleScript, CleanupScript}

\* the remote plane raised in the invocation; for create_vm the read of a VM that
\* does not exist is meant to raise
Faulted(call) ==
    \/ call.raisedBy = "action"
    \/ call.op # "create" /\ call.raisedBy = "read"

\* the next operation of the script
ScriptInvoke(c) ==
    /\ script.pos <= Len(script.ops)
    /\ \/ /\ script.ops[script.pos] # "create"
          /\ Invoke(c, script.ops[script.pos], script.node, script.vmid)
       \/ /\ script.ops[script.pos] = "create"
          /\ \E nm \in Names, m \in MemoryArgs, k \in CoresArgs :
               InvokeCreate(c, script.node, script.vmid, nm, m, k)

\* the operation has returned or raised; the script notes how it ended and goes on
ScriptReturn(c) ==
    /\ script.pos <= Len(script.ops)
    /\ calls[c].pc = "done"
    /\ calls' = [calls EXCEPT ![c] = Returned(calls[c])]
    /\ script' = [script EXCEPT !.pos = @ + 1,
                                !.kinds = Append(@, calls[c].out.kind),
                                !.faults = Append(@, Faulted(calls[c]))]
    /\ UNCHANGED <<vmState, cluster, inv>>

\* the lifecycle starts on a (node, vmid) that does not exist, the cleanup on a
\* stopped VM
InitLife ==
    /\ calls = [c \in Callers |-> IdleCall]
    /\ cluster = NoInventory
    /\ inv = IdleList
    /\ \E ops \in Scripts, n \in Nodes, v \in VMIDs :
         /\ script = [NoScript EXCEPT !.ops = ops, !.node = n, !.vmid = v]
         /\ vmState = [vm \in VMs |->
                          IF vm = <<n, v>> /\ ops[1] # "create" THEN "stopped" ELSE Absent]

LifeStep(c) ==
    \/ ScriptInvoke(c)
    \/ create_vm_check(c)
    \/ create_vm_post(c)
    \/ start_vm_check(c)
    \/ start_vm_post(c)
    \/ stop_vm_check(c)
    \/ stop_vm_post(c)
    \/ delete_vm_check(c)
    \/ delete_vm_delete(c)
    \/ ScriptReturn(c)

NextLife == \E c \in SeqCallers : LifeStep(c)

SpecLife == InitLife /\ [][NextLife]_vars

(***************************************************************************)
(* get_vms                                                                 *)
(***************************************************************************)
NA == StrVal("N/A")

get_vms_operation == <<"get", "VMs">>

\* vm.get("mem", 0), vm.get("maxmem", 0)
get_vms_memory(vm) ==
    [used |-> IF vm.mem = <<>> THEN 0 ELSE vm.mem[1],
     total |-> IF vm.maxmem = <<>> THEN 0 ELSE vm.maxmem[1]]

\* faulty variant: config.get("cores", 0)
get_vms_record_zero_cores(node_name, vm, config) ==
    [vmid |-> vm.vmid, name |-> vm.name, status |-> vm.status, node |-> node_name,
     cpus |-> IF config.cores = <<>> THEN IntVal("0") ELSE config.cores[1],
     memory |-> get_vms_memory(vm)]

\* the record appended when config.get() returned
get_vms_record(node_name, vm, config) ==
    [vmid |-> vm.vmid, name |-> vm.name, status |-> vm.status, node |-> node_name,
     cpus |-> IF config.cores = <<>> THEN NA ELSE config.cores[1],
     memory |-> get_vms_memory(vm)]

\* the record appended when config.get() raised
get_vms_fallback(node_name, vm) ==
    [vmid |-> vm.vmid, name |-> vm.name, status |-> vm.status, node |-> node_name,
     cpus |-> NA,
     memory |-> get_vms_memory(vm)]

\* faulty variant: result.insert(0, ...)
get_vms_append_front(result, record) == <<record>> \o result

\* result.append(...)
get_vms_append(result, record) == Append(result, record)

\* faulty variant: a failed configuration fetch degrades the records gathered so far
get_vms_enriched_degrades_all(l, r) ==
    IF r.raised
    THEN [l EXCEPT !.result =
            get_vms_append([k \in 1..Len(l.result) |-> [l.result[k] EXCEPT !.cpus = NA]],
                           get_vms_fallback(l.nodes[l.ni], l.vms[l.vi]))]
    ELSE [l EXCEPT !.result =
            get_vms_append(@, get_vms_record(l.nodes[l.ni], l.vms[l.vi], r.config))]

\* faulty variant: the handler of the configuration fetch skips the VM
get_vms_enriched_skip(l, r) ==
    IF r.raised
    THEN l
    ELSE [l EXCEPT !.result =
            get_vms_append(@, get_vms_record(l.nodes[l.ni], l.vms[l.vi], r.config))]

\* the inner try block and its handler, on the outcome r of config.get()
get_vms_enriched(l, r) ==
    IF r.raised
    THEN [l EXCEPT !.result =
            get_vms_append(@, get_vms_fallback(l.nodes[l.ni], l.vms[l.vi]))]
    ELSE [l EXCEPT !.result =
            get_vms_append(@, get_vms_record(l.nodes[l.ni], l.vms[l.vi], r.config))]

\* the two for loops: the next VM of the node, else the next node, else
\* return self._format_response(result, "vms")
get_vms_next(l) ==
    IF l.vi <= Len(l.vms)
    THEN [l EXCEPT !.pc = "config"]
    ELSE IF l.ni < Len(l.nodes)
    THEN [l EXCEPT !.pc = "qemu", !.ni = @ + 1, !.vms = <<>>, !.vi = 1]
    ELSE [l EXCEPT !.pc = "done",
                   !.out = [kind |-> "ok", message |-> <<>>, records |-> l.result]]

\* faulty variant: what was gathered before the failure is returned
get_vms_failed_partial(l, by, e) ==
    [l EXCEPT !.pc = "done", !.raisedBy = by, !.remoteMsg = e.msg,
              !.out = [kind |-> "ok", message |-> <<>>, records |-> l.result]]

\* except Exception as e: self._handle_error("get VMs", e)
get_vms_failed(l, by, e) ==
    [l EXCEPT !.pc = "done", !.raisedBy = by, !.remoteMsg = e.msg,
              !.out = [kind |-> HandleError(get_vms_operation, e).kind,
                       message |-> HandleError(get_vms_operation, e).message,
                       records |-> <<>>]]

\* server.py: the get_vms tool takes no argument
InvokeGetVMs ==
    /\ inv.pc = "idle"
    /\ inv' = [IdleList EXCEPT !.pc = "nodes"]
    /\ UNCHANGED <<vmState, calls, cluster, script>>

\* for node in self.proxmox.nodes.get():
get_vms_nodes ==
    /\ inv.pc = "nodes"
    /\ \E r \in NodesRead :
         inv' = IF r.raised
                THEN get_vms_failed(inv, "nodes", r.exc)
                ELSE get_vms_next([inv EXCEPT !.nodes = r.list])
    /\ UNCHANGED <<vmState, calls, cluster, script>>

\* vms = self.proxmox.nodes(node_name).qemu.get()
get_vms_qemu ==
    /\ inv.pc = "qemu"
    /\ \E r \in QemuRead(inv.nodes[inv.ni]) :
         inv' = IF r.raised
                THEN get_vms_failed(inv, "qemu", r.exc)
                ELSE get_vms_next([inv EXCEPT !.vms = r.list, !.vi = 1])
    /\ UNCHANGED <<vmState, calls, cluster, script>>

\* config = self.proxmox.nodes(node_name).qemu(vmid).config.get()
get_vms_config ==
    /\ inv.pc = "config"
    /\ \E r \in ConfigRead(inv.vms[inv.vi].vmid) :
         inv' = get_vms_next([get_vms_enriched(inv, r) EXCEPT !.vi = @ + 1])
    /\ UNCHANGED <<vmState, calls, cluster, script>>

\* the caller takes the listing; nothing of the invocation is kept
ReturnList ==
    /\ inv.pc = "done"
    /\ inv' = IdleList
    /\ UNCHANGED <<vmState, calls, cluster, script>>

\* the listing runs against an inventory of any shape
InitList ==
    /\ vmState = [vm \in VMs |-> Absent]
    /\ calls = [c \in Callers |-> IdleCall]
    /\ cluster \in Clusters
    /\ inv = IdleList
    /\ script = NoScript

NextList ==
    \/ InvokeGetVMs
    \/ get_vms_nodes
    \/ get_vms_qemu
    \/ get_vms_config
    \/ ReturnList

SpecList == InitList /\ [][NextList]_vars

(***************************************************************************)
(* Properties                                                              *)
(***************************************************************************)
StatusApi == "status.current.get"

ActionApis == {"status.start.post", "status.stop.post", "status.shutdown.post",
               "status.reboot.post", "qemu.post", "delete"}

Issued(call, api) == \E i \in DOMAIN call.log : call.log[i].api = api

NoActionIssued(call) == \A i \in DOMAIN call.log : call.log[i].api \notin ActionApis

\* the status read of the invocation returned a status
ReadReturned(call) == call.seen \in Statuses

\* C1: createVM on a (node, vmid) whose status read succeeds never issues the
\* remote create and fails with a ValueError containing "already exists".
C1_CreateExistingRejected ==
    \A c \in Callers :
        LET call == calls[c]
        IN (call.op = "create" /\ ReadReturned(call))
           => /\ ~ Issued(call, "qemu.post")
              /\ call.pc = "done" => /\ call.out.kind = "ValueError"
                                     /\ Contains(call.out.message, <<"already", "exists">>)

\* C2: startVM on a VM whose status read returns running fails with a ValueError
\* containing "already running" and issues no remote start.
C2_StartRunningRejected ==
    \A c \in Callers :
        LET call == calls[c]
        IN (call.op = "start" /\ call.seen = "running")
           => /\ call.pc = "done"
              /\ call.out.kind = "ValueError"
              /\ Contains(call.out.message, <<"already", "running">>)
              /\ NoActionIssued(call)

C2_Witness ==
    \E c \in Callers :
        /\ calls[c].op = "start" /\ calls[c].seen = "running" /\ calls[c].pc = "done"
        /\ Issued(calls[c], StatusApi)

\* C3: stopVM and shutdownVM on a VM whose status read returns stopped fail with a
\* ValueError containing "already stopped" and issue neither stop nor shutdown.
C3_StopStoppedRejected ==
    \A c \in Callers :
        LET call == calls[c]
        IN (call.op \in {"stop", "shutdown"} /\ call.seen = "stopped")
           => /\ call.pc = "done"
              /\ call.out.kind = "ValueError"
              /\ Contains(call.out.message, <<"already", "stopped">>)
              /\ ~ Issued(call, "status.stop.post")
              /\ ~ Issued(call, "status.shutdown.post")

C3_Witness ==
    \E c \in Callers :
        /\ calls[c].op = "shutdown" /\ calls[c].seen = "stopped" /\ calls[c].pc = "done"
        /\ Issued(calls[c], StatusApi)

\* C4: deleteVM on a VM whose status read returns running or paused fails with the
\* ValueError "VM {vmid} must be stopped before deletion" and never issues the delete.
C4_DeleteActiveRejected ==
    \A c \in Callers :
        LET call == calls[c]
        IN (call.op = "delete" /\ call.seen \in {"running", "paused"})
           => /\ call.pc = "done"
              /\ call.out.kind = "ValueError"
              /\ call.out.message
                   = <<"VM">> \o call.vmid \o <<"must", "be", "stopped", "before", "deletion">>
              /\ ~ Issued(call, "delete")

Rejects(op, status) ==
    CASE op = "start" -> status = "running"
      [] op = "stop" -> status = "stopped"
      [] op = "shutdown" -> status = "stopped"
      [] op = "restart" -> status # "running"
      [] op = "delete" -> status \in {"running", "paused"}
      [] op = "create" -> TRUE

\* the word that names the operation in "Failed to <word> VM {vmid}: ..."
ContextWord(op) == IF op = "restart" THEN "reboot" ELSE op

\* C6: on every successful return of start, stop, shutdown, restart and delete the
\* upid of the result is the value the remote action returned when that value is a
\* string, and null for every other value.
C6_TaskHandleRoundTrip ==
    \A c \in Callers :
        LET call == calls[c]
        IN (call.pc = "done" /\ call.out.kind = "ok" /\ call.op # "create")
           => /\ call.ret.t = "str" => call.out.upid = call.ret
              /\ call.ret.t # "str" => call.out.upid = NoneVal

C6_Witness ==
    \E c \in Callers :
        /\ calls[c].pc = "done" /\ calls[c].out.kind = "ok" /\ calls[c].op = "delete"
        /\ calls[c].ret = StrVal("")
        /\ calls[c].out.upid = StrVal("")

\* C7: an invocation of a guarded operation makes exactly one status read, as its
\* first remote call, before any action; an action is issued only if that one read
\* allowed it, whatever status the VM has by the time the action is issued.
C7_OneReadBeforeAction ==
    \A c \in Callers :
        LET call == calls[c]
        IN /\ call.pc = "read" => call.log = <<>>
           /\ call.pc \in {"act", "done"}
                => /\ Len(call.log) >= 1
                   /\ call.log[1].api = StatusApi
                   /\ \A i \in 2..Len(call.log) : call.log[i].api \in ActionApis
           /\ (call.op \in Ops \ {"create"} /\ ~ NoActionIssued(call))
                => /\ ReadReturned(call)
                   /\ ~ Rejects(call.op, call.seen)
           /\ (call.op \in Ops \ {"create"} /\ call.pc = "done"
                 /\ ReadReturned(call) /\ ~ Rejects(call.op, call.seen))
                => ~ NoActionIssued(call)

\* the VM was stopped when start_vm read its status and running when the start
\* was issued all the same
C7_Witness ==
    \E c \in Callers :
        /\ calls[c].pc = "done" /\ calls[c].op = "start"
        /\ calls[c].seen = "stopped" /\ calls[c].current = "running"
        /\ Issued(calls[c], "status.start.post")

C9_ActionFailureWrapped ==
    \A c \in Callers :
        LET call == calls[c]
        IN (call.guard = "allowed" /\ call.raisedBy = "action")
           => /\ call.pc = "done"
              /\ call.out.kind = "RuntimeError"
              /\ call.out.success = FALSE
              /\ call.out.message
                   = <<"Failed", "to", ContextWord(call.op), "VM">> \o call.vmid
                        \o <<":">> \o call.remoteMsg

C9_Witness ==
    \E c \in Callers :
        /\ calls[c].op = "restart" /\ calls[c].guard = "allowed"
        /\ calls[c].raisedBy = "action" /\ calls[c].pc = "done"
        /\ calls[c].remoteMsg = <<"Invalid", "VMID">>

\* C10: a failing invocation ends in a ValueError exactly when the guard turned the
\* transition away and in a RuntimeError exactly when the remote plane raised.
C10_TwoErrorKinds ==
    \A c \in Callers :
        LET call == calls[c]
        IN (call.pc = "done" /\ call.out.kind # "ok")
           => /\ call.out.kind \in {"ValueError", "RuntimeError"}
              /\ (call.out.kind = "ValueError" <=> call.guard = "denied")
              /\ (call.out.kind = "RuntimeError" <=> call.raisedBy # "none")

\* the remote action of each guarded operation
ActionOf(op) ==
    CASE op = "start" -> "status.start.post"
      [] op = "stop" -> "status.stop.post"
      [] op = "shutdown" -> "status.shutdown.post"
      [] op = "restart" -> "status.reboot.post"
      [] op = "delete" -> "delete"
      [] op = "create" -> "qemu.post"

\* how often the invocation has made the call api
Count(call, api) == Cardinality({i \in DOMAIN call.log : call.log[i].api = api})

C12_StartUnknownFails ==
    \A c \in Callers :
        LET call == calls[c]
        IN (call.op = "start" /\ call.seen = "unknown" /\ call.pc = "done")
           => call.out.kind = "RuntimeError"

\* C13: restartVM on a VM whose status read returns stopped issues the
\* remote start exactly once and does not issue the reboot.
C13_RestartStoppedStarts ==
    \A c \in Callers :
        LET call == calls[c]
        IN (call.op = "restart" /\ call.seen = "stopped" /\ call.pc = "done")
           => /\ Count(call, "status.start.post") = 1
              /\ Count(call, "status.reboot.post") = 0

\* C14: restartVM on a VM whose status read returns paused issues the
\* remote reboot and returns the success result "VM {vmid} reboot initiated".
C14_RestartPausedAccepted ==
    \A c \in Callers :
        LET call == calls[c]
        IN (call.op = "restart" /\ call.seen = "paused" /\ call.pc = "done")
           => /\ Issued(call, "status.reboot.post")
              /\ call.raisedBy # "action"
                   => /\ call.out.kind = "ok"
                      /\ call.out.message = <<"VM">> \o call.vmid \o <<"reboot", "initiated">>

RECURSIVE Enumerated(_, _)
\* the VMs of the inventory from the i-th reported node on, each with its node, in
\* the order the nodes and the VM lists report them
Enumerated(cl, i) ==
    IF i > Len(cl.nodes)
    THEN <<>>
    ELSE [k \in 1..Len(cl.vms[cl.nodes[i]]) |->
             [node |-> cl.nodes[i], vm |-> cl.vms[cl.nodes[i]][k]]]
         \o Enumerated(cl, i + 1)

\* the configuration of the VM cannot be fetched
ConfigRaises(vmid) == \A r \in ConfigRead(vmid) : r.raised

\* C16: a listing that returns holds exactly one record per enumerated VM,
\* whichever configuration fetches raised; the record of a VM whose fetch raised
\* has cpus "N/A" and its vmid, name, status, node and memory from the coarse entry.
C16_NoVMDropped ==
    (inv.pc = "done" /\ inv.out.kind = "ok")
    => LET e == Enumerated(cluster, 1)
           rs == inv.out.records
       IN /\ Len(rs) = Len(e)
          /\ \A k \in 1..Len(e) :
               /\ rs[k].vmid = e[k].vm.vmid
               /\ ConfigRaises(e[k].vm.vmid)
                    => rs[k] = [vmid |-> e[k].vm.vmid, name |-> e[k].vm.name,
                                status |-> e[k].vm.status, node |-> e[k].node,
                                cpus |-> StrVal("N/A"),
                                memory |-> [used |-> e[k].vm.mem[1],
                                            total |-> e[k].vm.maxmem[1]]]

\* node1 has two VMs, the configuration fetch of the second failed
C16_Witness ==
    /\ inv.pc = "done" /\ inv.out.kind = "ok"
    /\ cluster.nodes = <<"node1">>
    /\ Len(inv.out.records) = 2
    /\ inv.out.records[1].cpus = IntVal("2")
    /\ inv.out.records[2].vmid = "101" /\ inv.out.records[2].cpus = StrVal("N/A")

\* C17: the result of a listing is the concatenation, in the order the nodes are
\* reported, of each node's VM list in the order of that list; every record names
\* the node whose list held it.
C17_ListingOrder ==
    (inv.pc = "done" /\ inv.out.kind = "ok")
    => [k \in 1..Len(inv.out.records) |->
           <<inv.out.records[k].node, inv.out.records[k].vmid,
             inv.out.records[k].name, inv.out.records[k].status>>]
       = [k \in 1..Len(Enumerated(cluster, 1)) |->
           <<Enumerated(cluster, 1)[k].node, Enumerated(cluster, 1)[k].vm.vmid,
             Enumerated(cluster, 1)[k].vm.name, Enumerated(cluster, 1)[k].vm.status>>]

\* node2 is reported before node1 and both hold different VMs
C17_Witness ==
    /\ inv.pc = "done" /\ inv.out.kind = "ok"
    /\ cluster.nodes = <<"node2", "node1">>
    /\ Len(inv.out.records) = 4
    /\ inv.out.records[1].node = "node2" /\ inv.out.records[1].vmid = "102"
    /\ inv.out.records[2].node = "node2" /\ inv.out.records[2].vmid = "100"
    /\ inv.out.records[3].node = "node1" /\ inv.out.records[3].vmid = "100"
    /\ inv.out.records[4].node = "node1" /\ inv.out.records[4].vmid = "101"

\* C18: when nodes.get() or the qemu.get() of any node raises, the listing returns
\* no list: it ends in the RuntimeError "Failed to get VMs: ..." and the records
\* gathered from earlier nodes are not returned; a listing that returns a list had
\* no enumeration raise.
C18_EnumerationFailureAborts ==
    /\ inv.raisedBy \in {"nodes", "qemu"}
         => /\ inv.pc = "done"
            /\ inv.out.kind = "RuntimeError"
            /\ inv.out.records = <<>>
            /\ inv.out.message = <<"Failed", "to", "get", "VMs", ":">> \o inv.remoteMsg
    /\ inv.out.kind = "ok" => inv.raisedBy = "none"

\* the VM list of the second node raised after the first node gave two records
C18_Witness ==
    /\ inv.pc = "done" /\ inv.raisedBy = "qemu"
    /\ inv.ni = 2 /\ Len(inv.result) = 2
    /\ inv.out.records = <<>>

\* C19: createVM whose status read found no VM issues exactly one remote create, on
\* the node of the request, with ostype l26, sockets 1, scsi0 "local-zfs:1", boot
\* "order=scsi0", net0 "virtio,bridge=vmbr0", the caller's vmid and name, and the
\* caller's memory and cores or 512 and 1 when omitted; when the create returns,
\* the result is success with the caller's vmid and the message
\* "VM {vmid} ({name}) created successfully".
C19_CreateIssuesMinimalSpec ==
    \A c \in Callers :
        LET call == calls[c]
        IN (call.op = "create" /\ call.guard = "allowed" /\ call.pc = "done")
           => /\ Count(call, "qemu.post") = 1
              /\ call.log[Len(call.log)]
                   = [api |-> "qemu.post", node |-> call.node, vmid |-> call.vmid]
              /\ call.created
                   = << [vmid |-> call.vmid, name |-> call.name, ostype |-> "l26",
                         memory |-> IF call.memArg = <<>> THEN 512 ELSE call.memArg[1],
                         cores |-> IF call.coresArg = <<>> THEN 1 ELSE call.coresArg[1],
                         sockets |-> 1, scsi0 |-> "local-zfs:1", boot |-> "order=scsi0",
                         net0 |-> "virtio,bridge=vmbr0"] >>
              /\ call.raisedBy # "action"
                   => /\ call.out.kind = "ok"
                      /\ call.out.success = TRUE
                      /\ call.out.vmid = call.vmid
                      /\ call.out.message
                           = <<"VM">> \o call.vmid \o <<"(">> \o call.name
                               \o <<")", "created", "successfully">>

\* memory given by the caller, cores left to the default
C19_Witness ==
    \E c \in Callers :
        /\ calls[c].op = "create" /\ calls[c].guard = "allowed" /\ calls[c].pc = "done"
        /\ calls[c].out.kind = "ok"
        /\ calls[c].memArg = <<2048>> /\ calls[c].coresArg = <<>>
        /\ Len(calls[c].created) = 1
        /\ calls[c].created[1].memory = 2048 /\ calls[c].created[1].cores = 1

\* C20: no lock is held from the status read to the action of start_vm: whatever
\* another invocation is doing on the same VM, the status read of a stopped VM
\* can return stopped and let the invocation go on to its start, and an invocation
\* that was let through can issue its start; so two invocations can both read
\* stopped before either issues its start, and both issue it.
C20_NoLockAcrossReadAct ==
    \A c \in Callers :
        /\ (calls[c].pc = "read" /\ calls[c].op = "start"
              /\ vmState[<<calls[c].node, calls[c].vmid>>] = "stopped")
           => ENABLED (start_vm_check(c) /\ calls'[c].pc = "act"
                         /\ calls'[c].seen = "stopped")
        /\ (calls[c].pc = "act" /\ calls[c].op = "start")
           => ENABLED (start_vm_post(c) /\ Issued(calls'[c], "status.start.post"))

\* both invocations read stopped and both issued the start: the start of c1 was
\* issued on the stopped VM and accepted, the start of c2 was issued after it, on
\* the VM already running, although c2 had read stopped
C20_Witness ==
    /\ calls["c1"].op = "start" /\ calls["c2"].op = "start"
    /\ calls["c1"].node = calls["c2"].node /\ calls["c1"].vmid = calls["c2"].vmid
    /\ calls["c1"].pc = "done" /\ calls["c2"].pc = "done"
    /\ calls["c1"].seen = "stopped" /\ calls["c2"].seen = "stopped"
    /\ Count(calls["c1"], "status.start.post") = 1
    /\ Count(calls["c2"], "status.start.post") = 1
    /\ calls["c1"].current = "stopped" /\ calls["c1"].out.kind = "ok"
    /\ calls["c2"].current = "running"

\* C21: every result a lifecycle operation returns, rather than raising, has
\* success = TRUE, whatever status was read and whatever the remote action
\* returned; success is never returned as FALSE.
C21_ReturnedMeansSuccess ==
    \A c \in Callers :
        LET call == calls[c]
        IN call.pc = "done"
           => /\ call.out.kind = "ok" => call.out.success = TRUE
              /\ call.out.kind = "ok" <=> call.raisedBy # "action" /\ ~ NoActionIssued(call)

\* the remote stop returned None and the result is a success all the same
C21_Witness ==
    \E c \in Callers :
        /\ calls[c].pc = "done" /\ calls[c].op = "stop" /\ calls[c].seen = "paused"
        /\ calls[c].ret = NoneVal
        /\ calls[c].out.kind = "ok" /\ calls[c].out.success = TRUE

\* C23: createVM treats every failure of the status read as "no such VM":
\* whatever the read raised, the create is issued, the failure of the read is not
\* reported, and the invocation ends in a RuntimeError only when the create itself
\* raised, with the message of the create.
C23_CreateReadFailureIsAbsent ==
    \A c \in Callers :
        LET call == calls[c]
        IN (call.op = "create" /\ (call.raisedBy = "read" \/ call.guard = "allowed"))
           => /\ call.pc \in {"act", "done"}
              /\ call.pc = "done"
                   => /\ Count(call, "qemu.post") = 1
                      /\ call.raisedBy # "action" => call.out.kind = "ok"
                      /\ call.raisedBy = "action"
                           => /\ call.out.kind = "RuntimeError"
                              /\ call.out.message
                                   = <<"Failed", "to", "create", "VM">> \o call.vmid
                                       \o <<":">> \o call.remoteMsg

\* the status read timed out and the VM was created
C23_Witness ==
    \E c \in Callers :
        /\ calls[c].op = "create" /\ calls[c].pc = "done"
        /\ calls[c].raisedBy = "read" /\ calls[c].remoteMsg = <<"Connection", "timeout">>
        /\ Issued(calls[c], "qemu.post") /\ calls[c].out.kind = "ok"

\* C24: deleteVM whose status read raises an exception whose message does not
\* contain "not found" ends in a RuntimeError that carries the message of that
\* exception, and the remote delete is never issued.
C24_DeleteReadFailureReraised ==
    \A c \in Callers :
        LET call == calls[c]
        IN (call.op = "delete" /\ call.raisedBy = "read"
              /\ ~ Contains(Lower(call.remoteMsg), <<"not", "found">>))
           => /\ call.pc = "done"
              /\ call.out.kind = "RuntimeError"
              /\ call.out.message
                   = <<"Failed", "to", "delete", "VM">> \o call.vmid
                       \o <<":">> \o call.remoteMsg
              /\ ~ Issued(call, "delete")

C24_Witness ==
    \E c \in Callers :
        /\ calls[c].op = "delete" /\ calls[c].raisedBy = "read" /\ calls[c].pc = "done"
        /\ calls[c].remoteMsg = <<"Connection", "timeout">>
        /\ calls[c].out.kind = "RuntimeError"

\* C25: an invocation issues at most one state-changing remote call, does not
\* issue it again after it raised and makes no remote call after it: the action is
\* the last call of the invocation, which is then finished, and an invocation
\* makes at most two remote calls.
C25_NoRetryNoPolling ==
    \A c \in Callers :
        LET call == calls[c]
        IN /\ Len(call.log) <= 2
           /\ Cardinality({i \in DOMAIN call.log : call.log[i].api \in ActionApis}) <= 1
           /\ \A i \in DOMAIN call.log :
                call.log[i].api \in ActionApis => (i = Len(call.log) /\ call.pc = "done")

\* the start raised and the invocation ended there
C25_Witness ==
    \E c \in Callers :
        /\ calls[c].op = "start" /\ calls[c].pc = "done"
        /\ calls[c].raisedBy = "action" /\ Len(calls[c].log) = 2
        /\ Count(calls[c], "status.start.post") = 1

C29_DeleteRejectionPassesThrough ==
    \A c \in Callers :
        LET call == calls[c]
        IN (call.op = "delete" /\ ReadReturned(call) /\ call.pc = "done")
           => /\ call.out.message # <<"VM">> \o call.vmid \o <<"not", "found">>
              /\ delete_vm_illegal(call.seen)
                   => Contains(call.out.message, <<"must", "be", "stopped">>)

\* what the configuration fetch of the VM alone makes of its cpus
OwnCpus(vmid) ==
    IF ConfigRaises(vmid)
    THEN StrVal("N/A")
    ELSE LET r == CHOOSE x \in ConfigRead(vmid) : ~ x.raised
         IN IF r.config.cores = <<>> THEN StrVal("N/A") ELSE r.config.cores[1]

\* C28: in a listing the cpus of a record depends on the configuration fetch of
\* its own VM only: at every point of the listing each record gathered so far has
\* the cpus its own fetch gives, whichever fetches failed before or after it on
\* the same or another node, and the listing goes on to the remaining VMs and
\* nodes.
C28_DegradationIsPerVM ==
    /\ \A k \in DOMAIN inv.result : inv.result[k].cpus = OwnCpus(inv.result[k].vmid)
    /\ (inv.pc = "done" /\ inv.out.kind = "ok")
         => /\ Len(inv.out.records) = Len(Enumerated(cluster, 1))
            /\ \A k \in DOMAIN inv.out.records :
                 inv.out.records[k].cpus = OwnCpus(Enumerated(cluster, 1)[k].vm.vmid)

\* the fetch of the first VM of node1 failed; the VM after it and the VM of node2
\* have their core count
C28_Witness ==
    /\ inv.pc = "done" /\ inv.out.kind = "ok"
    /\ cluster.nodes = <<"node1", "node2">>
    /\ Len(inv.out.records) = 3
    /\ inv.out.records[1].vmid = "101" /\ inv.out.records[1].cpus = StrVal("N/A")
    /\ inv.out.records[2].node = "node1" /\ inv.out.records[2].cpus = IntVal("2")
    /\ inv.out.records[3].node = "node2" /\ inv.out.records[3].cpus = IntVal("2")

\* C30: a VM whose configuration is fetched but has no "cores" entry is listed
\* with cpus "N/A"; a coarse entry without "mem" gives memory used 0 and one
\* without "maxmem" gives memory total 0; every record of a listing carries vmid,
\* name, status, node, cpus and both memory figures.
C30_RecordsAreComplete ==
    (inv.pc = "done" /\ inv.out.kind = "ok")
    => \A k \in DOMAIN inv.out.records :
         LET rec == inv.out.records[k]
             vm == Enumerated(cluster, 1)[k].vm
         IN /\ DOMAIN rec = {"vmid", "name", "status", "node", "cpus", "memory"}
            /\ DOMAIN rec.memory = {"used", "total"}
            /\ rec.memory.used \in Nat /\ rec.memory.total \in Nat
            /\ vm.mem = <<>> => rec.memory.used = 0
            /\ vm.maxmem = <<>> => rec.memory.total = 0
            /\ (\E r \in ConfigRead(vm.vmid) : ~ r.raised /\ r.config.cores = <<>>)
                 => rec.cpus = StrVal("N/A")

\* VM 102: its configuration has no cores, its coarse entry no mem and no maxmem
C30_Witness ==
    /\ inv.pc = "done" /\ inv.out.kind = "ok"
    /\ Len(inv.out.records) = 1
    /\ inv.out.records[1]
         = [vmid |-> "102", name |-> "vm3", status |-> "paused", node |-> "node2",
            cpus |-> StrVal("N/A"), memory |-> [used |-> 0, total |-> 0]]

\* C22: on a (node, vmid) that does not exist, against a remote plane that applies
\* every action it accepts, createVM, startVM, stopVM, deleteVM in this order each
\* return success, none of them turned away by its guard, as long as the remote
\* plane raised in none of them so far.
C22_LifecycleCompletes ==
    script.ops = LifecycleScript
    => \A k \in DOMAIN script.kinds :
         (\A j \in 1..k : ~ script.faults[j]) => script.kinds[k] = "ok"

\* all four have returned success and the VM is gone again
C22_Witness ==
    /\ script.ops = LifecycleScript
    /\ script.kinds = <<"ok", "ok", "ok", "ok">>
    /\ vmState[<<script.node, script.vmid>>] = Absent

\* C27: a failed operation leaves nothing behind: once an invocation has returned
\* or raised, the tools hold nothing of it; after startVM on a stopped VM ended in
\* a RuntimeError the VM is as it was, and a following deleteVM on the same VM
\* starts from nothing, makes its own status read and, when the remote plane
\* answers, deletes the VM and returns success.
C27_NoLocalStateAfterFailure ==
    \A c \in SeqCallers :
        LET call == calls[c]
        IN /\ call.pc = "idle" => call = IdleCall
           /\ (script.ops = CleanupScript /\ script.kinds = <<"RuntimeError">>)
                => /\ call.pc = "idle" => vmState[<<script.node, script.vmid>>] = "stopped"
                   /\ call.pc = "read"
                        => call = [IdleCall EXCEPT !.pc = "read", !.op = "delete",
                                                   !.node = script.node,
                                                   !.vmid = script.vmid]
                   /\ call.pc = "done"
                        => /\ call.log[1] = [api |-> StatusApi, node |-> script.node,
                                             vmid |-> script.vmid]
                           /\ Count(call, StatusApi) = 1
                           /\ call.raisedBy = "none"
                                => /\ call.seen = "stopped"
                                   /\ call.log[2] = [api |-> "delete", node |-> script.node,
                                                     vmid |-> script.vmid]
                                   /\ call.out.kind = "ok"
                                   /\ call.out.message
                                        = <<"VM">> \o script.vmid
                                            \o <<"deleted", "successfully">>

\* the start raised, the delete after it succeeded
C27_Witness ==
    /\ script.ops = CleanupScript
    /\ script.kinds = <<"RuntimeError", "ok">>
    /\ script.faults = <<TRUE, FALSE>>
    /\ vmState[<<script.node, script.vmid>>] = Absent

====
